---------------------------- MODULE Spec2Model ----------------------------
(***************************************************************************)
(* Model of boost-vault/Idioms:                                            *)
(*   custom_ops.hpp  - "(almost) custom operators": BOOST_CUSTOM_OP and    *)
(*                     the type-tagging templates behind it;               *)
(*   predicated constructor header - BOOST_PREDICATED_[ANONYMOUS_]         *)
(*                     CONSTRUCTOR and predicated_constructee_storage.     *)
(* C++ types are modelled as records, the templates as operators on them,  *)
(* and the evaluation of one expression  x binop u1 .. uk y  (overload     *)
(* resolution of each operator, then the call of the selected function)    *)
(* as a state machine.  A second state machine runs one scope that holds   *)
(* a predicated construction.                                              *)
(***************************************************************************)
EXTENDS Integers, Sequences, FiniteSets, TLC

VARIABLES
    defs,      \* the BOOST_CUSTOM_OP definitions of the translation unit
    expr,      \* the call-site expression  x binop toks y
    tu,        \* "unchecked" | "ok" | "header_rejected" | "redefinition" |
               \* "ambiguous_implementation"
    pos,       \* unary tokens of expr.toks not yet applied (right to left)
    cur,       \* the operand built so far: [type, value], NoOperand at start
    seld,      \* index of the definition whose lastop operator was selected
    status,    \* progress of the expression, see Statuses
    calls,     \* invocations of user bodies: <<[line, p2, a, b], ...>>
    result,    \* the value of the expression once dispatched
    pc,        \* scope machine: control point
    decl,      \* scope machine: the declaration [macro, cond, throws, arg]
    mem,       \* the aligned storage: [state, a], state "none" | "raw" |
               \* "live" | "dead", a the member obj::a
    holder,    \* the predicated_constructee_storage object: [built, t]
    name,      \* what the reference `name` is bound to
    ctorCalls, \* invocations of obj's constructor
    ctorDone,  \* constructions that completed
    dtorCalls, \* invocations of obj's destructor
    dtorOnRaw, \* a destructor ran on storage holding no constructed object
    reads      \* members read through `name` in the scope

opsVars  == <<defs, expr, tu, pos, cur, seld, status, calls, result>>
predVars == <<pc, decl, mem, holder, name, ctorCalls, ctorDone, dtorCalls,
              dtorOnRaw, reads>>
vars     == <<opsVars, predVars>>

---------------------------------------------------------------------------
(* Bounds of the model. *)

\* longest intermediate operator string `ops` of a definition
MaxOps == 2
\* largest member value of an operand object
MaxVal == 2
\* most reads through `name` inside the scope
MaxUses == 2
\* largest constructor argument of a predicated construction
MaxArg == 3

---------------------------------------------------------------------------
(* C++ types. *)

Base(b, c, r) == [kind |-> "base", base |-> b, const |-> c, ref |-> r]

reference_wrapper(T) == [kind |-> "reference_wrapper", T |-> T]

cop_reference_wrapper(T) == [kind |-> "cop_reference_wrapper", T |-> T]

wrapped(T, Tag) == [kind |-> "wrapped", T |-> T, Tag |-> Tag]

type_finder_impl(T) == [kind |-> "type_finder_impl", T |-> T]

\* the type traits custom_ops.hpp includes
is_reference(T) == T.kind = "base" /\ T.ref

remove_reference(T) == IF T.kind = "base" THEN [T EXCEPT !.ref = FALSE] ELSE T

add_const(T) ==
    IF T.kind = "base" /\ ~T.ref THEN [T EXCEPT !.const = TRUE] ELSE T

is_fundamental(T) == T.kind = "base" /\ ~T.ref /\ T.base = "int"

is_pointer(T) == T.kind = "base" /\ ~T.ref /\ T.base = "ptr"

---------------------------------------------------------------------------
(* Tags and the operator iteration list. *)

BOOST_COPS_ITERATE_OPS == {"+", "-", "&", "*", "++", "--", "!", "~"}

tag_from_op_buggy ==
    [op \in BOOST_COPS_ITERATE_OPS |->
        CASE op = "+"  -> "plus_tag"
          [] op = "-"  -> "minus_tag"
          [] op = "&"  -> "amp_tag"
          [] op = "*"  -> "asterisk_tag"
          [] op = "++" -> "plus_tag"
          [] op = "--" -> "minus_tag"
          [] op = "!"  -> "excl_tag"
          [] op = "~"  -> "tilde_tag"]

tag_from_op ==
    [op \in {"+", "-", "&", "*", "++", "--", "!", "~"} |->
        CASE op = "+"  -> "plus_tag"
          [] op = "-"  -> "minus_tag"
          [] op = "&"  -> "amp_tag"
          [] op = "*"  -> "asterisk_tag"
          [] op = "++" -> "increment_tag"
          [] op = "--" -> "decrement_tag"
          [] op = "!"  -> "excl_tag"
          [] op = "~"  -> "tilde_tag"]

BOOST_COPS_OPTAG(OP) == tag_from_op[OP]

---------------------------------------------------------------------------
(* unwrap and the members of wrapped<T, Tag>. *)

unwrap_shallow(W) == IF W.kind = "wrapped" THEN W.T ELSE W

RECURSIVE unwrap(_)
unwrap(W) == IF W.kind = "wrapped" THEN unwrap(W.T) ELSE W

\* wrapped<T, Tag>::type, the type of the member `value`
wrapped_type(W) == unwrap(W.T)

\* initialising an entity of type P from the object v: a reference refers
\* to v's object, anything else is a copy of it
CopyOf(v) == [obj |-> "copy", val |-> v.val]

InitFrom(P, v) == IF is_reference(P) THEN v ELSE CopyOf(v)

\* explicit wrapped(type t) : value(t)
wrapped_ctor_value(W, v) ==
    [type |-> W, value |-> InitFrom(wrapped_type(W), InitFrom(wrapped_type(W), v))]

\* template <class U, class Tag> explicit wrapped(wrapped<U, Tag> u)
\*     : value(u.value)
wrapped_ctor_wrapped(W, u) ==
    [type |-> W, value |-> InitFrom(wrapped_type(W), u.value)]

---------------------------------------------------------------------------
(* type_finder: the definition-side encoding. *)

\* type_finder_impl<T>::operator OP ()
type_finder_op(F, OP) == type_finder_impl(wrapped(F.T, BOOST_COPS_OPTAG(OP)))

\* type_finder<T>::f
type_finder_f(T) == type_finder_impl(T)

\* the value of the expression  s[1] s[2] .. s[n] F : the rightmost
\* operator is applied first
RECURSIVE ApplyPrefixOps(_, _)
ApplyPrefixOps(s, F) ==
    IF s = <<>> THEN F
    ELSE type_finder_op(ApplyPrefixOps(Tail(s), F), Head(s))

\* type_finder_impl<T>::type
type_finder_impl_type(F) == F.T

---------------------------------------------------------------------------
(* reasonable_type_for_unary_operator_overload and BOOST_CUSTOM_OP. *)

reasonable_type_testing_T_(T_) ==
    IF is_fundamental(T_) \/ is_pointer(T_)
    THEN cop_reference_wrapper(
             IF is_reference(T_) THEN remove_reference(T_) ELSE add_const(T_))
    ELSE T_

reasonable_type_for_unary_operator_overload(T_) ==
    LET T == IF is_reference(T_) THEN remove_reference(T_) ELSE add_const(T_)
    IN  IF is_fundamental(T) \/ is_pointer(T)
        THEN cop_reference_wrapper(T)
        ELSE T_

\* param1type of the modelled definitions: const A&
P1 == [kind |-> "base", base |-> "A", const |-> TRUE, ref |-> TRUE]

\* the unary operator the macro defines for its `firstop` argument (the
\* last operator of the operator string)
LastOpOperator(d) ==
    [op    |-> d.lastop,
     param |-> reasonable_type_for_unary_operator_overload(d.P2),
     ret   |-> wrapped(d.P2, BOOST_COPS_OPTAG(d.lastop))]

\* the binary operator the macro defines: its second parameter type is
\* BOOST_TYPEOF(ops firstop type_finder<param2type>::f)::type
BinaryOperator(d) ==
    [op |-> d.binop,
     p1 |-> P1,
     p2 |-> type_finder_impl_type(
                ApplyPrefixOps(d.ops \o <<d.lastop>>, type_finder_f(d.P2)))]

\* the operator string a definition stands for
OpString(d) == <<d.binop>> \o d.ops \o <<d.lastop>>

\* the user-supplied body
\* boost_custom_ops_implementation_<line>(param1type a, param2type b):
\* an arbitrary function of its two parameters
UserBody(line, p2, a, b) == <<"body", line, p2, a.val, b.val>>

---------------------------------------------------------------------------
(* Declarations of one translation unit. *)

\* top-level const is not part of a function's parameter-type-list
ParamSig(T) ==
    IF T.kind = "base" /\ ~T.ref THEN [T EXCEPT !.const = FALSE] ELSE T

\* two definitions define the same function twice: the unary operator for
\* the last operator, the binary operator, or (expanded on one line)
\* boost_custom_ops_implementation_<line> with the same parameter types
Clash(d, e) ==
    \/ /\ d.lastop = e.lastop
       /\ ParamSig(LastOpOperator(d).param) = ParamSig(LastOpOperator(e).param)
    \/ /\ d.binop = e.binop
       /\ BinaryOperator(d).p2 = BinaryOperator(e).p2
    \/ /\ d.line = e.line
       /\ ParamSig(d.P2) = ParamSig(e.P2)

TUClash(ds) == \E i, j \in DOMAIN ds : i < j /\ Clash(ds[i], ds[j])

---------------------------------------------------------------------------
(* Implicit conversion sequences and overload resolution. *)

NoConv ==
    [viable |-> FALSE, rank |-> "none", fn |-> "none",
     refbind |-> FALSE, cv |-> FALSE]

\* from an lvalue of (non-reference) type S to a parameter of type P
StdConv(S, P) ==
    IF /\ S.kind = "base" /\ P.kind = "base" /\ S.base = P.base
       /\ ((P.ref /\ ~P.const) => ~S.const)
    THEN [viable |-> TRUE, rank |-> "exact", fn |-> "none",
          refbind |-> P.ref, cv |-> P.ref /\ P.const]
    ELSE NoConv

ICS(S, P) ==
    CASE S.kind = "base" -> StdConv(S, P)
      [] S.kind = "reference_wrapper" /\ P.kind = "cop_reference_wrapper" ->
            \* cop_reference_wrapper(reference_wrapper<T> w)
            IF P.T = S.T
            THEN [viable |-> TRUE, rank |-> "user",
                  fn |-> "cop_reference_wrapper(reference_wrapper<T>)",
                  refbind |-> FALSE, cv |-> FALSE]
            ELSE NoConv
      [] S.kind = "reference_wrapper" /\ P.kind = "base" ->
            \* reference_wrapper<T>::operator T& () const
            IF StdConv(S.T, P).viable
            THEN [StdConv(S.T, P) EXCEPT !.rank = "user", !.fn = "operator T&"]
            ELSE NoConv
      [] S.kind = "wrapped" /\ P = S ->
            [viable |-> TRUE, rank |-> "exact", fn |-> "none",
             refbind |-> FALSE, cv |-> FALSE]
      [] OTHER -> NoConv

\* conversion sequence a is better than b
BetterICS(a, b) ==
    \/ a.rank = "exact" /\ b.rank = "user"
    \/ /\ a.rank = b.rank /\ a.fn = b.fn
       /\ a.refbind /\ b.refbind /\ ~a.cv /\ b.cv

\* d is expanded before e on the same line, so the call
\* boost_custom_ops_implementation_<line>(a, b.value) in the binary
\* operator of e sees the overload declared by d as well as its own;
\* b.value is an lvalue of param2type without its reference.  With the same
\* parameter types d and e declare one function and the call has a single
\* candidate
ImplCallAmbiguous(d, e) ==
    /\ d.line = e.line
    /\ ParamSig(d.P2) # ParamSig(e.P2)
    /\ LET S     == remove_reference(e.P2)
           own   == StdConv(S, e.P2)
           other == StdConv(S, d.P2)
       IN  other.viable /\ ~BetterICS(own, other)

TUAmbiguous(ds) ==
    \E i, j \in DOMAIN ds : i < j /\ ImplCallAmbiguous(ds[i], ds[j])

\* the built-in candidate for a prefix operator whose operand is a
\* reference_wrapper<T>, reached through operator T&
BuiltinViable(op, S) ==
    /\ S.kind = "reference_wrapper"
    /\ \/ /\ S.T.base = "int"
          /\ \/ op \in {"+", "-", "!", "~"}
             \/ op \in {"++", "--"} /\ ~S.T.const
       \/ /\ S.T.base = "ptr"
          /\ \/ op \in {"+", "!", "*"}
             \/ op \in {"++", "--"} /\ ~S.T.const

BuiltinICS(op) ==
    [viable |-> TRUE, rank |-> "user", fn |-> "operator T&",
     refbind |-> op \in {"++", "--"}, cv |-> FALSE]

\* an operand that is no class: the built-in operator applies
IsScalar(S) == S.kind = "base" /\ S.base \in {"int", "ptr"}

UnaryCandidates(op, S, ds) ==
    {c \in {[fn |-> "lastop", d |-> i,
             ics |-> ICS(S, LastOpOperator(ds[i]).param)] :
                i \in {j \in DOMAIN ds : ds[j].lastop = op}} : c.ics.viable}
    \cup (IF S.kind = "wrapped" /\ op \in BOOST_COPS_ITERATE_OPS
          THEN {[fn |-> "wrapping", d |-> 0, ics |-> ICS(S, S)]} ELSE {})
    \cup (IF BuiltinViable(op, S)
          THEN {[fn |-> "builtin", d |-> 0, ics |-> BuiltinICS(op)]} ELSE {})

ResolveUnary(op, S, ds) ==
    LET cands == UnaryCandidates(op, S, ds)
        best  == {c \in cands :
                    \A c2 \in cands \ {c} : BetterICS(c.ics, c2.ics)}
    IN  CASE IsScalar(S) -> [sel |-> "builtin", d |-> 0]
          [] cands = {} ->
                [sel |-> IF op = "&" THEN "builtin" ELSE "no_match", d |-> 0]
          [] best = {} -> [sel |-> "ambiguous", d |-> 0]
          [] OTHER -> LET c == CHOOSE b \in best : TRUE
                      IN  [sel |-> c.fn, d |-> c.d]

\* x binop b: wrapped<> has only explicit constructors, so a definition's
\* binary operator is viable exactly for its own second parameter type
BinaryCandidates(binop, S, ds) ==
    {i \in DOMAIN ds : ds[i].binop = binop /\ BinaryOperator(ds[i]).p2 = S}

---------------------------------------------------------------------------
(* The inputs: definitions and call-site expressions. *)

RECURSIVE SeqsUpTo(_, _)
SeqsUpTo(S, n) ==
    IF n = 0 THEN {<<>>}
    ELSE LET shorter == SeqsUpTo(S, n - 1)
         IN  shorter \cup {<<e>> \o t : e \in S, t \in {u \in shorter : Len(u) = n - 1}}

Bases == {"int", "ptr", "B"}

\* param2type: T, const T, T&, const T& for a fundamental type, a pointer
\* type and a class type
P2Types == {Base(b, c, r) : b \in Bases, c \in BOOLEAN, r \in BOOLEAN}

\* how the call site writes its right operand: the lvalue itself,
\* boost::ref(lvalue) or boost::cref(lvalue)
Wraps == {"plain", "ref", "cref"}

OperandType(y) ==
    CASE y.wrap = "plain" -> Base(y.base, FALSE, FALSE)
      [] y.wrap = "ref"   -> reference_wrapper(Base(y.base, FALSE, FALSE))
      [] y.wrap = "cref"  -> reference_wrapper(Base(y.base, TRUE, FALSE))

\* the object the right operand denotes
OperandObject(y) == [obj |-> "y", val |-> y.val]

NoOperand == [type |-> [kind |-> "none"], value |-> [obj |-> "none", val |-> 0]]

NoResult == <<>>

\* the scope machine before any declaration
NoStorage == [state |-> "none", a |-> 0]

NoHolder == [built |-> FALSE, t |-> "none"]

\* one definition, any operator string, called with that operator string
OneDefinition ==
    {<<[line |-> 1, binop |-> "/", ops |-> o, lastop |-> l, P2 |-> t]>> :
        o \in SeqsUpTo(BOOST_COPS_ITERATE_OPS, MaxOps),
        l \in BOOST_COPS_ITERATE_OPS, t \in P2Types}

\* two definitions with different operator strings, on two lines or
\* expanded on one line
TwoOps == {"-", "~"}
TwoBinops == {"/", "|"}
TwoLines == {1, 2}
TwoP2 == {Base("B", TRUE, TRUE), Base("B", FALSE, FALSE), Base("int", FALSE, FALSE)}

TwoDefinitions ==
    {ds \in {<<[line |-> 1, binop |-> b1, ops |-> o1, lastop |-> l1, P2 |-> t1],
               [line |-> n2, binop |-> b2, ops |-> o2, lastop |-> l2, P2 |-> t2]>> :
                n2 \in TwoLines, b1 \in TwoBinops, b2 \in TwoBinops,
                o1 \in SeqsUpTo(TwoOps, 1), o2 \in SeqsUpTo(TwoOps, 1),
                l1 \in TwoOps, l2 \in TwoOps, t1 \in TwoP2, t2 \in TwoP2} :
        OpString(ds[1]) # OpString(ds[2])}

PredIdle ==
    /\ pc = "idle"
    /\ decl = [macro |-> "none", cond |-> FALSE, throws |-> FALSE, arg |-> 0]
    /\ mem = NoStorage
    /\ holder = NoHolder
    /\ name = "unbound"
    /\ ctorCalls = 0
    /\ ctorDone = 0
    /\ dtorCalls = 0
    /\ dtorOnRaw = FALSE
    /\ reads = <<>>

OpsStart ==
    /\ tu = "unchecked"
    /\ pos = Len(expr.toks)
    /\ cur = NoOperand
    /\ seld = 0
    /\ status = "unchecked"
    /\ calls = <<>>
    /\ result = NoResult

InitOne ==
    /\ defs \in OneDefinition
    /\ \E w \in Wraps, v \in 1..MaxVal :
          expr = [binop |-> defs[1].binop,
                  toks  |-> defs[1].ops \o <<defs[1].lastop>>,
                  y     |-> [wrap |-> w, base |-> defs[1].P2.base, val |-> v]]
    /\ OpsStart

InitTwo ==
    /\ defs \in TwoDefinitions
    /\ \E i \in 1..2, b \in TwoBinops, w \in Wraps, v \in 1..MaxVal :
          expr = [binop |-> b,
                  toks  |-> defs[i].ops \o <<defs[i].lastop>>,
                  y     |-> [wrap |-> w, base |-> defs[i].P2.base, val |-> v]]
    /\ OpsStart

InitOps == (InitOne \/ InitTwo) /\ PredIdle

---------------------------------------------------------------------------
(* The translation unit is compiled, then the expression is evaluated. *)

\* wrapped's converting constructor is declared
\*     template <class U, class Tag> explicit wrapped(wrapped<U, Tag> u)
\* inside  template <class T, class Tag> struct wrapped : the member
\* template declares the enclosing template's parameter Tag again
wrapped_ctor_redeclares_Tag == TRUE

\* a compiler that diagnoses the redeclared template parameter rejects
\* every translation unit that includes the header; one that accepts it
\* goes on to the definitions
Compilers == {"diagnoses_redeclaration", "accepts_redeclaration"}

TUOutcome(cc, ds) ==
    CASE cc = "diagnoses_redeclaration" /\ wrapped_ctor_redeclares_Tag ->
            "header_rejected"
      [] TUClash(ds) -> "redefinition"
      [] TUAmbiguous(ds) -> "ambiguous_implementation"
      [] OTHER -> "ok"

CompileTU ==
    /\ tu = "unchecked"
    /\ \E cc \in Compilers :
          /\ tu' = TUOutcome(cc, defs)
          /\ status' = IF TUOutcome(cc, defs) = "ok" THEN "parsing" ELSE "ill_formed"
    /\ UNCHANGED <<defs, expr, pos, cur, seld, calls, result>>
    /\ UNCHANGED predVars

\* the operand of the next prefix operator
NextOperandType == IF pos = Len(expr.toks) THEN OperandType(expr.y) ELSE cur.type

NextOperandValue == IF pos = Len(expr.toks) THEN OperandObject(expr.y) ELSE cur.value

NextUnary == ResolveUnary(expr.toks[pos], NextOperandType, defs)

\* a by-value wrapped<> parameter or return value
wrapped_copy(w) ==
    [type |-> w.type, value |-> InitFrom(wrapped_type(w.type), w.value)]

\* the parameter w of the macro's unary operator: a reference and a
\* cop_reference_wrapper refer to the operand, a class object copies it
BindParam(R, v) ==
    IF R.kind = "cop_reference_wrapper" THEN v ELSE InitFrom(R, v)

\* operator firstop (reasonable_type<param2type>::type w)
\*     { return wrapped<param2type, tag>(w); }
CallLastOpOperator ==
    /\ status = "parsing" /\ pos > 0
    /\ NextUnary.sel = "lastop"
    /\ LET d == defs[NextUnary.d]
           f == LastOpOperator(d)
       IN  /\ cur' = wrapped_copy(
                        wrapped_ctor_value(f.ret, BindParam(f.param, NextOperandValue)))
           /\ seld' = NextUnary.d
    /\ pos' = pos - 1
    /\ UNCHANGED <<defs, expr, tu, status, calls, result>>
    /\ UNCHANGED predVars

\* template <class T, class Tag> wrapped<wrapped<T, Tag>, OPTAG(OP)>
\*     operator OP (wrapped<T, Tag> w) { return wrapped<...>(w); }
WrappingOperatorSwapped(w, OP) ==
    wrapped_ctor_wrapped(wrapped(w.type.T, BOOST_COPS_OPTAG(OP)), w)

WrappingOperator(w, OP) ==
    wrapped_ctor_wrapped(wrapped(w.type, BOOST_COPS_OPTAG(OP)), w)

CallWrappingOperator ==
    /\ status = "parsing" /\ pos > 0
    /\ NextUnary.sel = "wrapping"
    /\ cur' = wrapped_copy(WrappingOperator(wrapped_copy(cur), expr.toks[pos]))
    /\ pos' = pos - 1
    /\ UNCHANGED <<defs, expr, tu, seld, status, calls, result>>
    /\ UNCHANGED predVars

\* the built-in operator is selected: the expression is no call of a
\* custom operator
UseBuiltinUnary ==
    /\ status = "parsing" /\ pos > 0
    /\ NextUnary.sel = "builtin"
    /\ status' = "not_custom"
    /\ UNCHANGED <<defs, expr, tu, pos, cur, seld, calls, result>>
    /\ UNCHANGED predVars

\* overload resolution fails: the program is ill-formed
UnaryIllFormed ==
    /\ status = "parsing" /\ pos > 0
    /\ NextUnary.sel \in {"ambiguous", "no_match"}
    /\ status' = NextUnary.sel
    /\ UNCHANGED <<defs, expr, tu, pos, cur, seld, calls, result>>
    /\ UNCHANGED predVars

\* rettype operator binop (param1type a, <encoded type> b)
\*     { return boost_custom_ops_implementation_<line>(a, b.value); }
CallBinaryOperator ==
    /\ status = "parsing" /\ pos = 0
    /\ Cardinality(BinaryCandidates(expr.binop, cur.type, defs)) = 1
    /\ \E xv \in 1..MaxVal :
         LET d == defs[CHOOSE i \in BinaryCandidates(expr.binop, cur.type, defs) : TRUE]
             a == [obj |-> "x", val |-> xv]
             b == wrapped_copy(cur)
             call == [line |-> d.line, p2 |-> ParamSig(d.P2),
                      a |-> InitFrom(P1, a), b |-> InitFrom(d.P2, b.value)]
         IN  /\ calls' = Append(calls, call)
             /\ result' = UserBody(call.line, call.p2, call.a, call.b)
    /\ status' = "dispatched"
    /\ UNCHANGED <<defs, expr, tu, pos, cur, seld>>
    /\ UNCHANGED predVars

BinaryIllFormed ==
    /\ status = "parsing" /\ pos = 0
    /\ Cardinality(BinaryCandidates(expr.binop, cur.type, defs)) # 1
    /\ status' = IF BinaryCandidates(expr.binop, cur.type, defs) = {}
                 THEN "no_match" ELSE "ambiguous"
    /\ UNCHANGED <<defs, expr, tu, pos, cur, seld, calls, result>>
    /\ UNCHANGED predVars

NextOps ==
    \/ CompileTU
    \/ CallLastOpOperator
    \/ CallWrappingOperator
    \/ UseBuiltinUnary
    \/ UnaryIllFormed
    \/ CallBinaryOperator
    \/ BinaryIllFormed

SpecOps == InitOps /\ [][NextOps]_vars

---------------------------------------------------------------------------
(* Predicated construction: one scope holding one declaration. *)

PredicatedMacros ==
    {"BOOST_PREDICATED_ANONYMOUS_CONSTRUCTOR", "BOOST_PREDICATED_CONSTRUCTOR"}

Macros == PredicatedMacros \cup {"BOOST_ANONYMOUS_CONSTRUCTOR"}

\* BOOST_ANONYMOUS_CONSTRUCTOR takes no condition: it always constructs
Decls ==
    [macro : PredicatedMacros, cond : BOOLEAN, throws : BOOLEAN, arg : 1..MaxArg]
    \cup [macro : {"BOOST_ANONYMOUS_CONSTRUCTOR"}, cond : {TRUE},
          throws : BOOLEAN, arg : 1..MaxArg]

\* predicated_constructee_storage(T* t) : _t(t)
predicated_constructee_storage(t) == [built |-> TRUE, t |-> t]

\* ~predicated_constructee_storage(): if (_t) _t->~T();
destructor_unchecked(h) == TRUE

destructor_invokes_dtor(h) == h.t # "null"

\* T& operator * () const { return *_t; }
operator_star(h) == h.t

\* the holder while the constructor of obj runs: the new-expression is the
\* argument of the holder's constructor, so the holder is not yet built
holder_built_first(h) == predicated_constructee_storage("mem")

holder_during_new(h) == h

\* the destructors that run when the holder goes out of scope
DestroyHolder(h, m) ==
    IF h.built /\ destructor_invokes_dtor(h)
    THEN [dtor |-> 1, onRaw |-> m.state # "live",
          m |-> [m EXCEPT !.state = "dead"]]
    ELSE [dtor |-> 0, onRaw |-> FALSE, m |-> m]

\* the unnamed local object of BOOST_ANONYMOUS_CONSTRUCTOR is destroyed
\* when it goes out of scope
DestroyAnonymous(m) ==
    IF m.state = "live"
    THEN [dtor |-> 1, onRaw |-> FALSE, m |-> [m EXCEPT !.state = "dead"]]
    ELSE [dtor |-> 0, onRaw |-> FALSE, m |-> m]

\* the destructors of the locals the declaration introduced
DestroyLocals(macro, h, m) ==
    IF macro = "BOOST_ANONYMOUS_CONSTRUCTOR"
    THEN DestroyAnonymous(m) ELSE DestroyHolder(h, m)

AfterDeclaration ==
    IF decl.macro = "BOOST_PREDICATED_CONSTRUCTOR" THEN "bind" ELSE "scope"

OpsIdle ==
    /\ defs = <<>>
    /\ expr = [binop |-> "/", toks |-> <<>>,
               y |-> [wrap |-> "plain", base |-> "B", val |-> 1]]
    /\ tu = "unchecked"
    /\ pos = 0
    /\ cur = NoOperand
    /\ seld = 0
    /\ status = "idle"
    /\ calls = <<>>
    /\ result = NoResult

InitPred ==
    /\ OpsIdle
    /\ pc = "start"
    /\ decl \in Decls
    /\ mem = NoStorage
    /\ holder = NoHolder
    /\ name = "unbound"
    /\ ctorCalls = 0
    /\ ctorDone = 0
    /\ dtorCalls = 0
    /\ dtorOnRaw = FALSE
    /\ reads = <<>>

\* ::boost::aligned_storage<sizeof(obj), alignment_of<obj>::value>::type _mem;
DeclareStorage ==
    /\ pc = "start" /\ decl.macro \in PredicatedMacros
    /\ mem' = [state |-> "raw", a |-> 0]
    /\ pc' = "declare"
    /\ UNCHANGED <<decl, holder, name, ctorCalls, ctorDone, dtorCalls,
                   dtorOnRaw, reads>>
    /\ UNCHANGED opsVars

\* holder((condition) ? new (&_mem) obj params : 0), condition true and
\* the constructor returns
ConstructPredicated ==
    /\ pc = "declare" /\ decl.cond /\ ~decl.throws
    /\ ctorCalls' = ctorCalls + 1
    /\ ctorDone' = ctorDone + 1
    /\ mem' = [state |-> "live", a |-> decl.arg]
    /\ holder' = predicated_constructee_storage("mem")
    /\ pc' = AfterDeclaration
    /\ UNCHANGED <<decl, name, dtorCalls, dtorOnRaw, reads>>
    /\ UNCHANGED opsVars

\* condition true and the constructor throws: the exception leaves the
\* scope and the locals built so far are destroyed
ConstructorThrows ==
    /\ pc = "declare" /\ decl.cond /\ decl.throws
    /\ ctorCalls' = ctorCalls + 1
    /\ LET h == holder_during_new(holder)
           u == DestroyHolder(h, mem)
       IN  /\ holder' = h
           /\ dtorCalls' = dtorCalls + u.dtor
           /\ dtorOnRaw' = (dtorOnRaw \/ u.onRaw)
           /\ mem' = u.m
    /\ pc' = "exited_by_exception"
    /\ UNCHANGED <<decl, name, ctorDone, reads>>
    /\ UNCHANGED opsVars

\* obj anonymous<obj><line> params;  the constructor returns: the local
\* object lives until the scope is left
ConstructAnonymous ==
    /\ pc = "start" /\ decl.macro = "BOOST_ANONYMOUS_CONSTRUCTOR"
    /\ ~decl.throws
    /\ ctorCalls' = ctorCalls + 1
    /\ ctorDone' = ctorDone + 1
    /\ mem' = [state |-> "live", a |-> decl.arg]
    /\ pc' = "scope"
    /\ UNCHANGED <<decl, holder, name, dtorCalls, dtorOnRaw, reads>>
    /\ UNCHANGED opsVars

\* obj anonymous<obj><line> params;  the constructor throws: no object
\* exists and the exception leaves the scope
AnonymousConstructorThrows ==
    /\ pc = "start" /\ decl.macro = "BOOST_ANONYMOUS_CONSTRUCTOR"
    /\ decl.throws
    /\ ctorCalls' = ctorCalls + 1
    /\ pc' = "exited_by_exception"
    /\ UNCHANGED <<decl, mem, holder, name, ctorDone, dtorCalls, dtorOnRaw,
                   reads>>
    /\ UNCHANGED opsVars

\* condition false: the holder is built from the null pointer
SkipConstruction ==
    /\ pc = "declare" /\ ~decl.cond
    /\ holder' = predicated_constructee_storage("null")
    /\ pc' = AfterDeclaration
    /\ UNCHANGED <<decl, mem, name, ctorCalls, ctorDone, dtorCalls,
                   dtorOnRaw, reads>>
    /\ UNCHANGED opsVars

\* obj& name = *_storage;  dereferencing the null pointer is undefined:
\* the reference is bound to address 0, or the program traps
BindName ==
    /\ pc = "bind"
    /\ \/ /\ operator_star(holder) # "null"
          /\ name' = operator_star(holder)
          /\ pc' = "scope"
       \/ /\ operator_star(holder) = "null"
          /\ \E outcome \in {"bound", "trap"} :
                /\ name' = IF outcome = "bound" THEN "null" ELSE name
                /\ pc' = IF outcome = "bound" THEN "scope" ELSE "crashed"
    /\ UNCHANGED <<decl, mem, holder, ctorCalls, ctorDone, dtorCalls,
                   dtorOnRaw, reads>>
    /\ UNCHANGED opsVars

\* name.a read inside the scope; through a reference bound to address 0
\* the read is undefined: the program is killed at the read, or the read
\* yields some value
UseName ==
    /\ pc = "scope" /\ Len(reads) < MaxUses
    /\ \/ /\ name = "mem"
          /\ reads' = Append(reads, mem.a)
          /\ pc' = pc
       \/ /\ name = "null"
          /\ \/ /\ pc' = "crashed"
                /\ reads' = reads
             \/ /\ \E v \in 0..MaxArg : reads' = Append(reads, v)
                /\ pc' = pc
    /\ UNCHANGED <<decl, mem, holder, name, ctorCalls, ctorDone,
                   dtorCalls, dtorOnRaw>>
    /\ UNCHANGED opsVars

\* the scope is left, normally or by an exception thrown in its body: the
\* destructors of its locals run
ExitScope ==
    /\ pc = "scope"
    /\ LET u == DestroyLocals(decl.macro, holder, mem)
       IN  /\ dtorCalls' = dtorCalls + u.dtor
           /\ dtorOnRaw' = (dtorOnRaw \/ u.onRaw)
           /\ mem' = u.m
    /\ \E how \in {"exited", "exited_by_exception"} : pc' = how
    /\ UNCHANGED <<decl, holder, name, ctorCalls, ctorDone, reads>>
    /\ UNCHANGED opsVars

NextPred ==
    \/ DeclareStorage
    \/ ConstructPredicated
    \/ ConstructorThrows
    \/ ConstructAnonymous
    \/ AnonymousConstructorThrows
    \/ SkipConstruction
    \/ BindName
    \/ UseName
    \/ ExitScope

SpecPred == InitPred /\ [][NextPred]_vars

Init == InitOps \/ InitPred

Next == NextOps \/ NextPred

Spec == Init /\ [][Next]_vars

---------------------------------------------------------------------------
(* Properties of the custom operators, checked under SpecOps. *)

\* the prefix operators already applied to the right operand
Applied == SubSeq(expr.toks, pos + 1, Len(expr.toks))

\* the call site writes the operator string of definition i
Matches(i) ==
    /\ expr.binop = defs[i].binop
    /\ expr.toks = defs[i].ops \o <<defs[i].lastop>>

\* the right operand converts to the parameter of definition i's unary
\* operator: an lvalue of a class type, or a fundamental or pointer lvalue
\* wrapped with the boost::ref() / boost::cref() that fits param2type
OperandFits(i) ==
    /\ expr.y.base = defs[i].P2.base
    /\ ICS(OperandType(expr.y), LastOpOperator(defs[i]).param).viable

Finished == status \in {"dispatched", "ambiguous", "no_match", "not_custom", "ill_formed"}

\* C1: with a single definition, every expression that writes the
\* definition's operator string and whose right operand converts to the
\* second parameter is dispatched to the user body exactly once, with the
\* first parameter bound to x and the second to y, and the body's return
\* value is the value of the expression.
C1_DispatchedOnce ==
    (Len(defs) = 1 /\ Matches(1) /\ OperandFits(1) /\ Finished) =>
        /\ status = "dispatched"
        /\ Len(calls) = 1
        /\ calls[1].line = defs[1].line
        /\ calls[1].p2 = ParamSig(defs[1].P2)
        /\ calls[1].a.obj = "x"
        /\ calls[1].b.val = expr.y.val
        /\ result = UserBody(defs[1].line, ParamSig(defs[1].P2),
                             calls[1].a, calls[1].b)

\* C7: two definitions, each on its own line, with different operator strings
\* coexist: the translation unit declares no function twice, and a call
\* that writes the operator string of one of them resolves to the body of
\* that definition, never to the other's and never ambiguously.
C7_DefinitionsCoexist ==
    (Len(defs) = 2 /\ defs[1].line # defs[2].line) =>
        /\ tu # "redefinition"
        /\ status # "ambiguous"
        /\ \A i \in 1..2 :
              (Matches(i) /\ OperandFits(i) /\ Finished) =>
                  /\ status = "dispatched"
                  /\ calls = <<[line |-> defs[i].line,
                                p2 |-> ParamSig(defs[i].P2),
                                a |-> calls[1].a, b |-> calls[1].b]>>

\* the type T of the claim, written out: param2type without its reference,
\* or param2type with const added when it is no reference
ExpectedT(P2) ==
    [kind |-> "base", base |-> P2.base, ref |-> FALSE,
     const |-> IF P2.ref THEN P2.const ELSE TRUE]

\* C4 (amended): the macro's unary operator never takes a fundamental
\* type, a pointer type or boost::reference_wrapper<T>: its parameter is
\* cop_reference_wrapper<T> when T is fundamental or a pointer and
\* param2type otherwise; an operand wrapped with boost::cref() converts to
\* it exactly when T is const, one wrapped with boost::ref() of a
\* non-const lvalue exactly when T is not const.
C4_ReasonableParameter ==
    \A i \in DOMAIN defs :
        LET P2 == defs[i].P2
            R  == LastOpOperator(defs[i]).param
        IN  /\ R.kind # "reference_wrapper"
            /\ R.kind = "base" => R.base \notin {"int", "ptr"}
            /\ IF P2.base \in {"int", "ptr"}
               THEN R = [kind |-> "cop_reference_wrapper", T |-> ExpectedT(P2)]
               ELSE R = P2
            /\ (P2.base \in {"int", "ptr"} /\ expr.y.base = P2.base
                  /\ expr.y.wrap \in {"ref", "cref"}) =>
                  (ICS(OperandType(expr.y), R).viable
                      <=> ((expr.y.wrap = "cref") <=> ExpectedT(P2).const))
            /\ seld = i => ICS(OperandType(expr.y), R).viable

\* C4 as stated: every operand wrapped with boost::ref() or boost::cref()
\* converts to the cop_reference_wrapper<T> parameter.
C4_AnyWrapperConverts ==
    \A i \in DOMAIN defs :
        (tu = "ok" /\ defs[i].P2.base \in {"int", "ptr"}
            /\ expr.y.base = defs[i].P2.base
            /\ expr.y.wrap \in {"ref", "cref"}) =>
            ICS(OperandType(expr.y), LastOpOperator(defs[i]).param).viable

C4_Witness ==
    /\ status = "dispatched" /\ seld = 1
    /\ defs[1].P2 = Base("int", FALSE, FALSE)
    /\ expr.y.wrap = "cref"
    /\ LastOpOperator(defs[1]).param.kind = "cop_reference_wrapper"

\* the operators the documentation lists as supported
DocumentedOps == {"+", "-", "&", "*", "++", "--", "!", "~"}

\* the tags of a nested wrapped<> type, outermost first
RECURSIVE TagsOf(_)
TagsOf(W) == IF W.kind = "wrapped" THEN <<W.Tag>> \o TagsOf(W.T) ELSE <<>>

OpOfTag(tag) == CHOOSE op \in DOMAIN tag_from_op : tag_from_op[op] = tag

\* C5: the supported prefix operators are exactly + - & * ++ -- ! ~, each
\* has a tag of its own, so the tags of the type built at the call site
\* give back the operators that were applied; prefix ++ (--) adds one level
\* tagged increment_tag (decrement_tag), + + (- -) two levels tagged
\* plus_tag (minus_tag).
C5_TagsDistinct ==
    /\ DOMAIN tag_from_op = DocumentedOps
    /\ BOOST_COPS_ITERATE_OPS = DocumentedOps
    /\ \A o1, o2 \in DOMAIN tag_from_op :
          tag_from_op[o1] = tag_from_op[o2] => o1 = o2
    /\ (seld # 0 /\ cur.type.kind = "wrapped") =>
          LET tags == TagsOf(cur.type)
          IN  /\ Len(tags) = Len(Applied)
              /\ \A k \in 1..Len(tags) : OpOfTag(tags[k]) = Applied[k]
              /\ Applied = <<"++">> => tags = <<"increment_tag">>
              /\ Applied = <<"--">> => tags = <<"decrement_tag">>
              /\ Applied = <<"+", "+">> => tags = <<"plus_tag", "plus_tag">>
              /\ Applied = <<"-", "-">> => tags = <<"minus_tag", "minus_tag">>

C5_Witness ==
    /\ status = "dispatched"
    /\ Applied = <<"++", "+", "+">>
    /\ TagsOf(cur.type) = <<"increment_tag", "plus_tag", "plus_tag">>

\* the nested type of the claim: the rightmost operator gives
\* wrapped<P2, tag>, each operator to its left adds one outer level
RECURSIVE Nested(_, _)
Nested(P2, s) ==
    IF Len(s) = 1 THEN [kind |-> "wrapped", T |-> P2, Tag |-> tag_from_op[s[1]]]
    ELSE [kind |-> "wrapped", T |-> Nested(P2, Tail(s)), Tag |-> tag_from_op[Head(s)]]

\* C6: the type built at the call site by the operators applied so far is
\* the type the definition computes for the same operators with
\* type_finder, and it is the nested wrapped<> type of those operators; a
\* dispatched call has the second parameter type of the definition called.
C6_EncodingsAgree ==
    seld # 0 =>
        /\ cur.type = type_finder_impl_type(
                          ApplyPrefixOps(Applied, type_finder_f(defs[seld].P2)))
        /\ cur.type = Nested(defs[seld].P2, Applied)
        /\ status = "dispatched" =>
              \E i \in DOMAIN defs :
                  /\ defs[i].line = calls[1].line
                  /\ ParamSig(defs[i].P2) = calls[1].p2
                  /\ BinaryOperator(defs[i]).p2 = cur.type

C6_Witness ==
    /\ status = "dispatched"
    /\ expr.toks = <<"~", "+", "-">>
    /\ defs[seld].P2 = Base("B", TRUE, TRUE)
    /\ cur.type = wrapped(wrapped(wrapped(Base("B", TRUE, TRUE), "minus_tag"),
                                  "plus_tag"), "tilde_tag")

\* the nesting levels of a wrapped<> type
RECURSIVE Levels(_)
Levels(W) == IF W.kind = "wrapped" THEN {W} \cup Levels(W.T) ELSE {}

\* C9: at every nesting depth unwrap gives the innermost param2type, the
\* member `value` of every level has that type, and the value carried (and
\* handed to the user body) is the right operand's: the same object when
\* param2type is a reference, an equal copy otherwise.
C9_ValueCarried ==
    seld # 0 =>
        LET P2 == defs[seld].P2
        IN  /\ unwrap(cur.type) = P2
            /\ \A L \in Levels(cur.type) : wrapped_type(L) = P2
            /\ cur.value.val = expr.y.val
            /\ cur.value.obj = IF P2.ref THEN "y" ELSE "copy"
            /\ status = "dispatched" =>
                  /\ calls[1].b.val = expr.y.val
                  /\ calls[1].b.obj = IF P2.ref THEN "y" ELSE "copy"

C9_Witness ==
    /\ status = "dispatched"
    /\ Len(expr.toks) = 3
    /\ defs[seld].P2 = Base("B", FALSE, TRUE)
    /\ expr.y.val = 2
    /\ calls[1].b = [obj |-> "y", val |-> 2]

---------------------------------------------------------------------------
(* Properties of the predicated construction, checked under SpecPred. *)

Exited == {"exited", "exited_by_exception"}

\* C2 (amended): for the two predicated macros, if the condition is true and the constructor returns, the
\* constructor has run exactly once at the declaration and the destructor
\* runs exactly once, at scope exit; if the condition is true and the
\* constructor throws, the constructor was entered once, nothing was
\* constructed and the destructor never runs; if the condition is false
\* neither runs.  No destructor runs on storage without a constructed
\* object, and after scope exit every constructed object is destroyed.
C2_Lifecycle ==
    decl.macro \in PredicatedMacros =>
        /\ ~dtorOnRaw
        /\ dtorCalls <= ctorDone
        /\ pc \in {"start", "declare"} => ctorCalls = 0 /\ dtorCalls = 0
        /\ pc \in {"bind", "scope", "crashed"} =>
              /\ ctorCalls = (IF decl.cond THEN 1 ELSE 0)
              /\ ctorDone = ctorCalls
              /\ dtorCalls = 0
        /\ pc \in Exited =>
              /\ dtorCalls = ctorDone
              /\ (decl.cond /\ ~decl.throws) => (ctorCalls = 1 /\ dtorCalls = 1)
              /\ (decl.cond /\ decl.throws) =>
                    (ctorCalls = 1 /\ ctorDone = 0 /\ dtorCalls = 0)
              /\ ~decl.cond => (ctorCalls = 0 /\ dtorCalls = 0)

\* C2 as stated: for the two predicated macros, whenever the condition is true the constructor runs once
\* and the destructor runs once at scope exit; when it is false neither
\* runs.
C2_Original ==
    decl.macro \in PredicatedMacros =>
        /\ ~dtorOnRaw
        /\ pc \in Exited =>
              /\ dtorCalls = ctorDone
              /\ decl.cond => (ctorCalls = 1 /\ dtorCalls = 1)
              /\ ~decl.cond => (ctorCalls = 0 /\ dtorCalls = 0)

C2_Witness ==
    /\ pc = "exited"
    /\ decl.macro \in PredicatedMacros /\ holder.built
    /\ decl.cond /\ ~decl.throws
    /\ ctorCalls = 1 /\ dtorCalls = 1
    /\ mem.state = "dead"

\* C3: after BOOST_PREDICATED_CONSTRUCTOR, for every value of the
\* condition, `name` refers to a live, constructed object in the macro's
\* storage and was not bound through a null pointer.
C3_NameRefersToLiveObject ==
    (decl.macro = "BOOST_PREDICATED_CONSTRUCTOR" /\ pc \in {"scope", "crashed"}) =>
        /\ holder.t # "null"
        /\ name = "mem"
        /\ mem.state = "live"

\* C8: if the constructor throws while the condition is true, the holder
\* is never built and the destructor of obj is never invoked for the
\* storage; a holder that points at the storage exists only once the
\* construction has completed.
C8_NoDestructorAfterThrow ==
    /\ (decl.macro \in PredicatedMacros /\ decl.cond /\ decl.throws
          /\ pc \notin {"start", "declare"}) =>
          /\ pc = "exited_by_exception"
          /\ ctorCalls = 1
          /\ ctorDone = 0
          /\ ~holder.built
          /\ dtorCalls = 0
          /\ ~dtorOnRaw
          /\ mem.state = "raw"
    /\ (holder.built /\ holder.t = "mem") => ctorDone = 1

C8_Witness ==
    /\ pc = "exited_by_exception"
    /\ decl.macro \in PredicatedMacros /\ mem.state = "raw"
    /\ decl.cond /\ decl.throws
    /\ ctorCalls = 1 /\ dtorCalls = 0
    /\ ~holder.built

=============================================================================
